---- MODULE Spec2Model ----
(***************************************************************************)
(* The word <-> document index of src/database.py: the three tables, the   *)
(* per-call sessions of get_session, and the coroutines that read and      *)
(* write them (create_documents, create_or_find_words,                     *)
(* associate_words_with_document), run by concurrent tasks that interleave *)
(* at every await on the store.                                            *)
(***************************************************************************)
EXTENDS Integers, Sequences, FiniteSets, TLC

\* ---------------------------------------------------------------- bounds
\* longest processed_content, in characters
MaxContentLen == 3
\* rows of the documents table
MaxDocs == 2
\* longest processed_content of the documents concurrent tasks work on
MaxRaceLen == 1
\* calls of create_or_find_words / associate_words_with_document issued
MaxCalls == 2
\* longest document_ids list passed to associate_words_with_document
MaxIds == 2

\* the concurrent tasks that call into database.py
Tasks == {1, 2}
\* no task holds the store's write lock
NoTask == 0

\* the alphabet of the contents: two letters, one of them in both cases,
\* and the blank
Chars == {"a", "A", "b", " "}

\* ---------------------------------------------------------------- text
\* str.lower() on one character
LowerChar(c) == IF c = "A" THEN "a" ELSE c

\* str.lower(): every character folded, the length kept
Lower(s) == [i \in 1..Len(s) |-> LowerChar(s[i])]

IsSpace(c) == c = " "

\* str.split() with no argument: the maximal runs of non-blank characters,
\* in order; leading, trailing and repeated blanks give no empty token.
\* SplitFrom scans s from position i with the token read so far in cur.
RECURSIVE SplitFrom(_, _, _)
SplitFrom(s, i, cur) ==
    IF i > Len(s)
    THEN IF cur = <<>> THEN <<>> ELSE <<cur>>
    ELSE IF IsSpace(s[i])
         THEN IF cur = <<>>
              THEN SplitFrom(s, i + 1, <<>>)
              ELSE <<cur>> \o SplitFrom(s, i + 1, <<>>)
         ELSE SplitFrom(s, i + 1, Append(cur, s[i]))

\* str.split(" "): a field between every two blanks, empty or not
RECURSIVE FieldsFrom(_, _, _)
FieldsFrom(s, i, cur) ==
    IF i > Len(s) THEN <<cur>>
    ELSE IF IsSpace(s[i])
         THEN <<cur>> \o FieldsFrom(s, i + 1, <<>>)
         ELSE FieldsFrom(s, i + 1, Append(cur, s[i]))

SplitOnBlank(s) == FieldsFrom(s, 1, <<>>)

Split(s) == SplitFrom(s, 1, <<>>)

\* a nullable string column: None, or a string
None == [none |-> TRUE, text |-> <<>>]
Str(s) == [none |-> FALSE, text |-> s]

\* the truth value Python gives a nullable string: None and "" are falsy
Truthy(c) == ~c.none /\ c.text # <<>>

\* words = document.processed_content.split() if document.processed_content else []
DocumentWords(c) == IF Truthy(c) THEN Split(c.text) ELSE <<>>

RECURSIVE StringsUpTo(_)
StringsUpTo(n) ==
    IF n = 0 THEN {<<>>}
    ELSE LET shorter == StringsUpTo(n - 1)
         IN  shorter \cup {Append(s, c) : s \in {t \in shorter : Len(t) = n - 1}, c \in Chars}

\* every value processed_content can take within the bound
Contents == {None} \cup {Str(s) : s \in StringsUpTo(MaxContentLen)}

\* the contents the concurrent tasks work on
RaceContents == {None} \cup {Str(s) : s \in StringsUpTo(MaxRaceLen)}

\* ---------------------------------------------------------------- helpers
Range(s) == {s[i] : i \in 1..Len(s)}

\* the orders in which a Python set can be iterated
Orderings(S) ==
    {s \in [1..Cardinality(S) -> S] : \A i, j \in 1..Cardinality(S) : i # j => s[i] # s[j]}

RECURSIVE SelectIn(_, _)
\* the rows of a table whose text is one of texts, in table order
SelectIn(table, texts) ==
    IF table = <<>> THEN <<>>
    ELSE IF Head(table).text \in texts
         THEN <<Head(table)>> \o SelectIn(Tail(table), texts)
         ELSE SelectIn(Tail(table), texts)


RECURSIVE SelectIds(_, _)
\* the rows of a table whose id is one of ids, in table order
SelectIds(table, ids) ==
    IF table = <<>> THEN <<>>
    ELSE IF Head(table).id \in ids
         THEN <<Head(table)>> \o SelectIds(Tail(table), ids)
         ELSE SelectIds(Tail(table), ids)

\* ---------------------------------------------------------------- state
VARIABLES
    words,                      \* table words: committed rows [id, text]
    documents,                  \* table documents: committed rows
                                \*   [id, processed_content, is_associated]
    word_document_associations, \* table word_document_associations:
                                \*   committed rows [id, word_id, document_id]
    writer,                     \* the task whose session holds flushed,
                                \*   uncommitted INSERTs (the store's write lock)
    calls,                      \* calls issued so far
    pc,                         \* where each task stands in its coroutine
    frame,                      \* the locals of each task's running call
    created,                    \* the last create_documents call: its argument
                                \*   and the list it returned
    driver                      \* main.py: the step it is at and the document
                                \*   ids register.main has submitted

vars == <<words, documents, word_document_associations, writer, calls, pc, frame,
          created, driver>>

\* no create_documents call yet
NoCreated == [contents |-> <<>>, returned |-> <<>>]

\* main.py is not running
NoDriver == [step |-> "idle", submitted |-> <<>>]

\* the locals of one call, named as in the source
NoFrame ==
    [op                    |-> "none",
     document_ids          |-> <<>>,   \* argument of associate_words_with_document
     documents             |-> <<>>,   \* the Document objects it loaded
     k                     |-> 0,      \* position of the for loop over documents
     words                 |-> <<>>,   \* argument of create_or_find_words
     existing_word_records |-> <<>>,
     new_words             |-> <<>>,   \* Word objects added to the session
     word_records          |-> <<>>,   \* what create_or_find_words returned
     session               |-> <<>>,   \* associations added to the open session
     associations          |-> <<>>,   \* the list associate_words_with_document returns
     raised                |-> "none"] \* the exception that ended the call

\* ---------------------------------------------------------------- Word
\* words_lower_set = set(word.lower() for word in words)
words_lower_set(ws) == {Lower(ws[i]) : i \in 1..Len(ws)}

\* existing_words = {word.text.lower() for word in existing_word_records}
existing_words(records) == {Lower(records[i].text) : i \in 1..Len(records)}

\* select(Word).where(Word.text.in_(words_lower_set))
existing_word_records(table, ws) == SelectIn(table, words_lower_set(ws))

\* the texts create_or_find_words makes a new Word for
new_word_texts(table, ws) ==
    {w \in words_lower_set(ws) : w \notin existing_words(existing_word_records(table, ws))}

\* the column without unique=True: no INSERT is rejected
NoUniqueViolation(table, new) == FALSE

\* Word.text is declared unique=True: an INSERT of a text the table holds, or
\* of the same text twice, is rejected
UniqueViolation(table, new) ==
    \/ \E i \in 1..Len(new) : \E j \in 1..Len(table) : new[i].text = table[j].text
    \/ \E i, j \in 1..Len(new) : i # j /\ new[i].text = new[j].text

\* the flush gives every added Word its id (default=uuid_generator): ids the
\* table does not hold yet
WithIds(table, new) == [i \in 1..Len(new) |-> [id |-> Len(table) + i, text |-> new[i].text]]

\* a rollback that reaches back over the whole call: the associations its
\* earlier sessions committed go too
rollback_all(table, f) == SelectSeq(table, LAMBDA a : a \notin Range(f.associations))

\* session.rollback() in get_session, for the session whose flush failed: its
\* own flushed rows are discarded; rows other sessions committed, those of
\* the call's earlier sessions included, stay
rollback(table, f) == table

\* a failed flush that leaves behind the rows inserted before the rejected one
keep_inserted(table, new) ==
    table \o WithIds(table, SelectSeq(new, LAMBDA n :
                                \A j \in 1..Len(table) : table[j].text # n.text))

\* session.rollback() in get_session, for the words table: none of the rows
\* the failed flush inserted stays
rolled_back(table, new) == table

\* a session in autocommit: what is flushed is visible
autocommitted(table, rows) == table \o rows

\* session.flush() inside the transaction the session began: the rows are
\* sent to the store and stay invisible to other sessions until the commit
flushed(table, rows) == table

\* a result that leaves out the Words read
only_new_words(existing, new) == new

\* all_words = existing_word_records + new_words
all_words(existing, new) == existing \o new

\* ---------------------------------------------------------------- Document
\* a select without the where clause
get_every_document(table, ids) == table

\* one select per listed id
RECURSIVE get_each_listed_id(_, _)
get_each_listed_id(table, ids) ==
    IF ids = <<>> THEN <<>>
    ELSE SelectIds(table, {Head(ids)}) \o get_each_listed_id(table, Tail(ids))

\* select(Document).where(Document.id.in_(document_ids))
get_by_document_ids(table, ids) == SelectIds(table, Range(ids))

\* select(Document).where(Document.is_associated == associated)
get_all_documents_by_associated(table, associated) ==
    SelectSeq(table, LAMBDA d : d.is_associated = associated)

\* an id default evaluated once: every Document of the batch gets the same id
SameIdDocuments(table, contents) ==
    [i \in 1..Len(contents) |->
        [id |-> Len(table) + 1, processed_content |-> contents[i], is_associated |-> FALSE]]

\* Document(title=..., raw_content=..., processed_content=...): the row of one
\* DocumentDTO, is_associated at its default
NewDocuments(table, contents) ==
    [i \in 1..Len(contents) |->
        [id |-> Len(table) + i, processed_content |-> contents[i], is_associated |-> FALSE]]

\* select(Document).where(Document.id == document_id), one_or_none()
get_document_by_id(table, document_id) == SelectIds(table, {document_id})

\* ---------------------------------------------------------------- Association
\* every association made for the first Word returned
FirstWordAssociations(table, word_records, document) ==
    [i \in 1..Len(word_records) |->
        [id |-> Len(table) + i, word_id |-> word_records[1].id, document_id |-> document.id]]

\* word_id and document_id given each other's value
SwappedAssociations(table, word_records, document) ==
    [i \in 1..Len(word_records) |->
        [id |-> Len(table) + i, word_id |-> document.id, document_id |-> word_records[i].id]]

\* one WordDocumentAssociation per Word of word_records, for one document
NewAssociations(table, word_records, document) ==
    [i \in 1..Len(word_records) |->
        [id |-> Len(table) + i, word_id |-> word_records[i].id, document_id |-> document.id]]

\* select(WordDocumentAssociation).where(document_id == document.id)
get_associations_by_document(table, document) ==
    SelectSeq(table, LAMBDA a : a.document_id = document.id)

\* select(WordDocumentAssociation).where(word_id == word.id)
get_associations_by_word(table, word) ==
    SelectSeq(table, LAMBDA a : a.word_id = word.id)

\* ---------------------------------------------------------------- Init
\* the store after migrate(): the three tables exist and are empty; no task
\* has called anything
Init ==
    /\ words = <<>>
    /\ documents = <<>>
    /\ word_document_associations = <<>>
    /\ writer = NoTask
    /\ calls = 0
    /\ pc = [p \in Tasks |-> "idle"]
    /\ frame = [p \in Tasks |-> NoFrame]
    /\ created = NoCreated
    /\ driver = NoDriver

\* a task is between calls
Free(p) == pc[p] \in {"idle", "returned", "raised"}

\* a session may flush INSERTs when no other session holds uncommitted ones
\* (SQLite admits one writer; the second waits for the first to commit)
MayWrite(p) == writer \in {NoTask, p}

\* ---------------------------------------------------------------- create_documents
\* creates(records) for the Documents of create_documents(contents): one
\* Document per DocumentDTO, added, flushed and committed in one session, and
\* the same list returned
creates(contents) ==
    /\ Len(documents) + Len(contents) <= MaxDocs
    /\ writer = NoTask
    /\ documents' = documents \o NewDocuments(documents, contents)
    /\ created' = [contents |-> contents, returned |-> NewDocuments(documents, contents)]
    /\ UNCHANGED <<words, word_document_associations, writer, calls, pc, frame>>

\* create_documents(contents), called on its own
create_documents(contents) == creates(contents) /\ UNCHANGED driver

\* ---------------------------------------------------------------- create_or_find_words
\* the body of create_or_find_words up to its flush: lower-case and
\* de-duplicate the tokens, read the existing Words, add a Word for every
\* text not read. The set is iterated in an order Python does not fix.
Select(p, f, ws, next) ==
    \E order \in Orderings(new_word_texts(words, ws)) :
        /\ frame' = [frame EXCEPT ![p] =
                [f EXCEPT !.words = ws,
                          !.existing_word_records = existing_word_records(words, ws),
                          !.new_words = [i \in 1..Len(order) |-> [text |-> order[i]]],
                          !.word_records = <<>>]]
        /\ pc' = [pc EXCEPT ![p] = next]

\* a task calls create_or_find_words(ws) and runs it to the flush
create_or_find_words_call(p, ws) ==
    /\ Free(p)
    /\ calls < MaxCalls
    /\ calls' = calls + 1
    /\ Select(p, [NoFrame EXCEPT !.op = "create_or_find_words"], ws, "words_flush")
    /\ UNCHANGED <<words, documents, word_document_associations, writer, created, driver>>

\* await session.flush(): the INSERTs of the new Words. A text the table
\* already holds violates the unique constraint: get_session rolls the
\* session back and re-raises, and nothing in the call chain catches it.
create_or_find_words_flush(p) ==
    /\ pc[p] = "words_flush"
    /\ frame[p].new_words = <<>> \/ MayWrite(p)
    /\ IF UniqueViolation(words, frame[p].new_words)
       THEN /\ frame' = [frame EXCEPT ![p].new_words = <<>>,
                                      ![p].raised = "IntegrityError"]
            /\ pc' = [pc EXCEPT ![p] = "raised"]
            /\ word_document_associations' = rollback(word_document_associations, frame[p])
            /\ words' = rolled_back(words, frame[p].new_words)
            /\ UNCHANGED writer
       ELSE /\ frame' = [frame EXCEPT ![p].new_words = WithIds(words, frame[p].new_words)]
            /\ pc' = [pc EXCEPT ![p] = "words_commit"]
            /\ writer' = IF frame[p].new_words = <<>> THEN writer ELSE p
            /\ UNCHANGED <<words, word_document_associations>>
    /\ UNCHANGED <<documents, calls, created, driver>>

\* leaving the session block: session.commit() makes the new Words visible,
\* and the call returns existing_word_records + new_words
create_or_find_words_commit(p) ==
    /\ pc[p] = "words_commit"
    /\ words' = words \o frame[p].new_words
    /\ writer' = IF writer = p THEN NoTask ELSE writer
    /\ frame' = [frame EXCEPT ![p].word_records =
                    all_words(frame[p].existing_word_records, frame[p].new_words)]
    /\ pc' = [pc EXCEPT ![p] =
                IF frame[p].op = "create_or_find_words" THEN "returned" ELSE "associations_flush"]
    /\ UNCHANGED <<documents, word_document_associations, calls, created, driver>>

\* ---------------------------------------------------------------- associate_words_with_document
\* associate_words_with_document(ids) up to its loop: get_by_document_ids
\* loads the documents; with none loaded the loop body never runs
associate_words_with_document_enter(p, ids) ==
    /\ Free(p)
    /\ calls < MaxCalls
    /\ calls' = calls + 1
    /\ LET loaded == get_by_document_ids(documents, ids)
       IN  /\ frame' = [frame EXCEPT ![p] =
                   [NoFrame EXCEPT !.op = "associate_words_with_document",
                                   !.document_ids = ids,
                                   !.documents = loaded,
                                   !.k = IF loaded = <<>> THEN 0 ELSE 1]]
           /\ pc' = [pc EXCEPT ![p] = IF loaded = <<>> THEN "returned" ELSE "document"]
    /\ UNCHANGED <<words, documents, word_document_associations, writer, created>>

\* a task calls associate_words_with_document(ids)
associate_words_with_document_call(p, ids) ==
    associate_words_with_document_enter(p, ids) /\ UNCHANGED driver

\* the head of the loop body for documents[k]: split its processed_content
\* and enter create_or_find_words with the tokens
associate_words_with_document_words(p) ==
    /\ pc[p] = "document"
    /\ Select(p, frame[p],
              DocumentWords(frame[p].documents[frame[p].k].processed_content),
              "words_flush")
    /\ UNCHANGED <<words, documents, word_document_associations, writer, calls,
                   created, driver>>

\* the session block of the loop body up to its flush: one association per
\* Word returned, appended to the result list and added to the session;
\* is_associated is set on the loaded Document object, which belongs to no
\* open session (get_by_document_ids closed the one that loaded it), so no
\* UPDATE of the documents table is flushed
associate_words_with_document_flush(p) ==
    /\ pc[p] = "associations_flush"
    /\ frame[p].word_records = <<>> \/ MayWrite(p)
    /\ LET f == frame[p]
           added == NewAssociations(word_document_associations, f.word_records,
                                    f.documents[f.k])
       IN  /\ frame' = [frame EXCEPT ![p].session = added,
                                     ![p].associations = f.associations \o added,
                                     ![p].documents[f.k].is_associated = TRUE]
           /\ writer' = IF added = <<>> THEN writer ELSE p
    /\ word_document_associations' = flushed(word_document_associations, frame'[p].session)
    /\ pc' = [pc EXCEPT ![p] = "associations_commit"]
    /\ UNCHANGED <<words, documents, calls, created, driver>>

\* leaving the session block: session.commit() makes the document's
\* associations visible; the loop goes on to the next document or the call
\* returns the list
associate_words_with_document_commit(p) ==
    /\ pc[p] = "associations_commit"
    /\ word_document_associations' = word_document_associations \o frame[p].session
    /\ writer' = IF writer = p THEN NoTask ELSE writer
    /\ IF frame[p].k < Len(frame[p].documents)
       THEN /\ frame' = [frame EXCEPT ![p].session = <<>>,
                                      ![p].k = frame[p].k + 1,
                                      ![p].words = <<>>,
                                      ![p].existing_word_records = <<>>,
                                      ![p].new_words = <<>>,
                                      ![p].word_records = <<>>]
            /\ pc' = [pc EXCEPT ![p] = "document"]
       ELSE /\ frame' = [frame EXCEPT ![p].session = <<>>]
            /\ pc' = [pc EXCEPT ![p] = "returned"]
    /\ UNCHANGED <<words, documents, calls, created, driver>>

\* ---------------------------------------------------------------- inputs
\* the lists of DocumentDTOs create_documents is given, over the contents cs
ContentLists(cs) == {<<c>> : c \in cs} \cup {<<c, d>> : c, d \in cs}

\* the token lists create_or_find_words is given: what split() returns for
\* the contents cs
TokenLists(cs) == {DocumentWords(c) : c \in cs}

\* the lists of document ids associate_words_with_document is given: ids of
\* stored documents, repeated or not, and ids no document has
IdLists == UNION {[1..n -> 1..(MaxDocs + 1)] : n \in 0..MaxIds}

\* the tasks run concurrently, on short contents
Next ==
    \/ \E l \in ContentLists(RaceContents) : create_documents(l)
    \/ \E p \in Tasks, l \in TokenLists(RaceContents) : create_or_find_words_call(p, l)
    \/ \E p \in Tasks : create_or_find_words_flush(p)
    \/ \E p \in Tasks : create_or_find_words_commit(p)
    \/ \E p \in Tasks, ids \in IdLists : associate_words_with_document_call(p, ids)
    \/ \E p \in Tasks : associate_words_with_document_words(p)
    \/ \E p \in Tasks : associate_words_with_document_flush(p)
    \/ \E p \in Tasks : associate_words_with_document_commit(p)

Spec == Init /\ [][Next]_vars

\* the store holds one document, of any content within the bound
InitSeq ==
    /\ words = <<>>
    /\ \E c \in Contents :
           /\ documents = NewDocuments(<<>>, <<c>>)
           /\ created = [contents |-> <<c>>, returned |-> NewDocuments(<<>>, <<c>>)]
    /\ word_document_associations = <<>>
    /\ writer = NoTask
    /\ calls = 0
    /\ pc = [p \in Tasks |-> "idle"]
    /\ frame = [p \in Tasks |-> NoFrame]
    /\ driver = NoDriver

\* the contents of the stored documents
StoredContents == {documents[i].processed_content : i \in 1..Len(documents)}

\* one task runs the calls one after the other, as register.main does; the
\* documents it adds are short, the token lists it resolves are short or
\* those of a stored document
NextSeq ==
    \/ \E l \in ContentLists(RaceContents) : create_documents(l)
    \/ \E l \in TokenLists(RaceContents \cup StoredContents) : create_or_find_words_call(1, l)
    \/ create_or_find_words_flush(1)
    \/ create_or_find_words_commit(1)
    \/ \E ids \in IdLists : associate_words_with_document_call(1, ids)
    \/ associate_words_with_document_words(1)
    \/ associate_words_with_document_flush(1)
    \/ associate_words_with_document_commit(1)

SpecSeq == InitSeq /\ [][NextSeq]_vars

\* the tasks resolve any token lists within the bound at once; no document
\* is stored
NextRace ==
    \/ \E p \in Tasks, l \in TokenLists(Contents) : create_or_find_words_call(p, l)
    \/ \E p \in Tasks : create_or_find_words_flush(p)
    \/ \E p \in Tasks : create_or_find_words_commit(p)

SpecRace == Init /\ [][NextRace]_vars

\* ---------------------------------------------------------------- main.main
\* a reset that drops the tables before it creates them
drop_and_create_all(table) == <<>>

\* Base.metadata.create_all: a table that exists is left as it is
create_all(table) == table

\* main: reset_main(), that is migrate(); retrieve_main() then writes the case
\* files, which are no part of the store
migrate ==
    /\ driver.step = "idle"
    /\ \A p \in Tasks : Free(p)
    /\ words' = create_all(words)
    /\ documents' = create_all(documents)
    /\ word_document_associations' = create_all(word_document_associations)
    /\ driver' = [driver EXCEPT !.step = "register"]
    /\ UNCHANGED <<writer, calls, pc, frame, created>>

\* register.main: one DocumentDTO per case file, passed by register_documents
\* to create_documents
register_documents(contents) ==
    /\ driver.step = "register"
    /\ creates(contents)
    /\ driver' = [driver EXCEPT !.step = "associate"]

\* all_document_ids = [doc.id for doc in await get_all_documents()]
all_document_ids == [i \in 1..Len(documents) |-> documents[i].id]

\* register.main: associate_words_with_document(all_document_ids)
register_associate ==
    /\ driver.step = "associate"
    /\ associate_words_with_document_enter(1, all_document_ids)
    /\ driver' = [driver EXCEPT !.step = "associating",
                                !.submitted = driver.submitted \o all_document_ids]

\* register.main has returned; analyze.main reads the store and prints
analyze ==
    /\ driver.step = "associating"
    /\ pc[1] = "returned"
    /\ driver' = [driver EXCEPT !.step = "idle"]
    /\ UNCHANGED <<words, documents, word_document_associations, writer, calls, pc, frame,
                   created>>

\* main.py run again and again, one run at a time, on case files of short
\* contents
NextMain ==
    \/ migrate
    \/ \E l \in {<<>>} \cup ContentLists(RaceContents) : register_documents(l)
    \/ register_associate
    \/ associate_words_with_document_words(1)
    \/ create_or_find_words_flush(1)
    \/ create_or_find_words_commit(1)
    \/ associate_words_with_document_flush(1)
    \/ associate_words_with_document_commit(1)
    \/ analyze

SpecMain == Init /\ [][NextMain]_vars

\* ---------------------------------------------------------------- analyze.main
RECURSIVE Listing(_, _)
\* the documents analyze.main prints under one word: each association of the
\* word resolved by get_document_by_id, in order, skipping the ones not found
Listing(assocs, table) ==
    IF assocs = <<>> THEN <<>>
    ELSE get_document_by_id(table, Head(assocs).document_id) \o Listing(Tail(assocs), table)

documents_for_word(word) ==
    Listing(get_associations_by_word(word_document_associations, word), documents)

\* ---------------------------------------------------------------- properties
Index == "associate_words_with_document"

\* task p's call of op has returned normally
Returned(p, op) == pc[p] = "returned" /\ frame[p].op = op

\* the number of positions of s that satisfy Test
Count(s, Test(_)) == Cardinality({i \in 1..Len(s) : Test(s[i])})

\* the stored Word with this id, as a set of zero or one rows
WordById(id) == {words[i] : i \in {j \in 1..Len(words) : words[j].id = id}}

\* None, or nothing but blanks
Blank(c) == c.none \/ \A i \in 1..Len(c.text) : IsSpace(c.text[i])

\* C1. Term uniqueness: in every reachable state, under any interleaving of
\* create_or_find_words and associate_words_with_document calls, no two
\* committed Word rows have the same lower-cased text.
C1_TermUniqueness ==
    \A i, j \in 1..Len(words) :
        i # j => Lower(words[i].text) # Lower(words[j].text)

\* two tasks resolved the same new text at once: one committed the Word, the
\* other's INSERT was rejected
C1_Witness ==
    \E p, q \in Tasks :
        /\ p # q
        /\ pc[p] = "raised"
        /\ pc[q] = "returned"
        /\ words_lower_set(frame[p].words) \cap words_lower_set(frame[q].words) # {}
        /\ words # <<>>

\* C2. Association occurrence counting: one call of
\* associate_words_with_document creates, for every document it loaded and
\* every term, as many associations as the term has occurrences among the
\* tokens of the document's processed content.
C2_OccurrenceCounting ==
    \A p \in Tasks :
        Returned(p, Index) =>
            \A k \in 1..Len(frame[p].documents) :
                LET d == frame[p].documents[k]
                    tokens == DocumentWords(d.processed_content)
                    made == SelectSeq(frame[p].associations, LAMBDA a : a.document_id = d.id)
                IN  /\ Len(made) = Len(tokens)
                    /\ \A w \in Range(words) :
                           Count(made, LAMBDA a : a.word_id = w.id)
                               = Count(tokens, LAMBDA t : Lower(t) = w.text)

\* C3. Idempotent re-association: whenever a call of
\* associate_words_with_document on a document has returned, the document
\* has the associations that one call makes and no more, however many calls
\* indexed it before.
C3_IdempotentReassociation ==
    \A p \in Tasks :
        Returned(p, Index) =>
            \A k \in 1..Len(frame[p].documents) :
                LET d == frame[p].documents[k]
                IN  Len(get_associations_by_document(word_document_associations, d))
                        = Count(frame[p].associations, LAMBDA a : a.document_id = d.id)

\* C4. Indexed flag: after associate_words_with_document has returned, every
\* document it loaded is among get_all_documents_by_associated(True) and not
\* among get_all_documents_by_associated(False).
C4_IndexedFlagSet ==
    \A p \in Tasks :
        Returned(p, Index) =>
            \A k \in 1..Len(frame[p].documents) :
                LET id == frame[p].documents[k].id
                IN  /\ \E d \in Range(get_all_documents_by_associated(documents, TRUE)) : d.id = id
                    /\ \A d \in Range(get_all_documents_by_associated(documents, FALSE)) : d.id # id

\* C5. Constraint-race recovery: no call of create_or_find_words or
\* associate_words_with_document ends with the uniqueness violation on
\* Word.text raised to its caller.
C5_RaceNeverSurfaced ==
    \A p \in Tasks : frame[p].raised # "IntegrityError"

\* C6. Round-trip lookup: after a document has been indexed, the Words its
\* associations (get_associations_by_document) lead to are exactly the
\* distinct lower-cased tokens of its content, and get_associations_by_word
\* of each of them returns an association of the document.
C6_RoundTrip ==
    \A p \in Tasks :
        Returned(p, Index) =>
            \A k \in 1..Len(frame[p].documents) :
                LET d == frame[p].documents[k]
                    tokens == DocumentWords(d.processed_content)
                    of_d == get_associations_by_document(word_document_associations, d)
                    terms == UNION {WordById(a.word_id) : a \in Range(of_d)}
                IN  /\ \A a \in Range(of_d) : WordById(a.word_id) # {}
                    /\ {T.text : T \in terms} = {Lower(tokens[i]) : i \in 1..Len(tokens)}
                    /\ \A T \in terms :
                           \E a \in Range(get_associations_by_word(word_document_associations, T)) :
                               a.document_id = d.id

\* a document with two different terms has been indexed
C6_Witness ==
    \E p \in Tasks :
        /\ Returned(p, Index)
        /\ \E k \in 1..Len(frame[p].documents) :
               LET tokens == DocumentWords(frame[p].documents[k].processed_content)
               IN  /\ Cardinality({Lower(tokens[i]) : i \in 1..Len(tokens)}) = 2
                   /\ Len(get_associations_by_document(word_document_associations,
                                                       frame[p].documents[k])) >= 2

\* C7. Documents-for-word de-duplication: in every reachable state the
\* documents listed for a Word, its associations each resolved to its
\* document, hold every document at most once.
C7_ListingHasNoDuplicates ==
    \A w \in Range(words) :
        LET listed == documents_for_word(w)
        IN  \A i, j \in 1..Len(listed) : i # j => listed[i].id # listed[j].id

\* C8. Empty input: while and after associate_words_with_document works on a
\* document whose processed content is None, empty or blanks only, no error
\* is raised, no Word is made and no association is made for the document.
C8_EmptyInput ==
    \A p \in Tasks :
        (frame[p].op = Index /\ frame[p].k >= 1
            /\ Blank(frame[p].documents[frame[p].k].processed_content)) =>
                /\ frame[p].raised = "none"
                /\ frame[p].new_words = <<>>
                /\ frame[p].word_records = <<>>
                /\ frame[p].session = <<>>
                /\ \A a \in Range(frame[p].associations) \cup Range(word_document_associations) :
                       a.document_id # frame[p].documents[frame[p].k].id

\* a call that indexed a document of blanks only has returned
C8_Witness ==
    \E p \in Tasks :
        /\ Returned(p, Index)
        /\ frame[p].k >= 1
        /\ LET c == frame[p].documents[frame[p].k].processed_content
           IN  Blank(c) /\ Truthy(c)

\* C9. Partial batch progress: when associate_words_with_document raises
\* while working on the k-th document it loaded, the associations it made
\* for the documents before the k-th are stored, one per distinct term of
\* each of them.
C9_PartialProgressSurvives ==
    \A p \in Tasks :
        (pc[p] = "raised" /\ frame[p].op = Index) =>
            /\ \A a \in Range(frame[p].associations) : a \in Range(word_document_associations)
            /\ \A j \in 1..(frame[p].k - 1) :
                   LET d == frame[p].documents[j]
                   IN  Count(frame[p].associations, LAMBDA a : a.document_id = d.id)
                           = Cardinality(words_lower_set(DocumentWords(d.processed_content)))

\* a call raised on a later document after it had stored associations for
\* an earlier one
C9_Witness ==
    \E p \in Tasks :
        /\ pc[p] = "raised"
        /\ frame[p].op = Index
        /\ frame[p].k >= 2
        /\ frame[p].associations # <<>>

\* create_or_find_words has returned to task p, called directly or from the
\* loop of associate_words_with_document
WordsResolved(p) ==
    \/ Returned(p, "create_or_find_words")
    \/ frame[p].op = Index /\ pc[p] \in {"associations_flush", "associations_commit"}
    \/ Returned(p, Index) /\ frame[p].k >= 1

\* C10. Resolve-or-create result: create_or_find_words returns exactly one
\* Word per distinct lower-cased token and nothing else; every Word returned
\* is a stored row, the ones read returned as read, and a Word is made only
\* for a text no Word read had.
C10_ResolveOrCreate ==
    \A p \in Tasks :
        WordsResolved(p) =>
            LET ws == frame[p].words
                r == frame[p].word_records
                canonical == {Lower(ws[i]) : i \in 1..Len(ws)}
            IN  /\ Len(r) = Cardinality(canonical)
                /\ {r[i].text : i \in 1..Len(r)} = canonical
                /\ \A i \in 1..Len(r) : r[i] \in Range(words)
                /\ \A i \in 1..Len(frame[p].existing_word_records) :
                       frame[p].existing_word_records[i] \in Range(r)
                /\ \A i \in 1..Len(frame[p].new_words) :
                       \A j \in 1..Len(frame[p].existing_word_records) :
                           frame[p].new_words[i].text # frame[p].existing_word_records[j].text

\* tokens that differ only in case were resolved to a Word that existed
C10_Witness ==
    \E p \in Tasks :
        /\ Returned(p, "create_or_find_words")
        /\ \E i, j \in 1..Len(frame[p].words) :
               /\ frame[p].words[i] # frame[p].words[j]
               /\ Lower(frame[p].words[i]) = Lower(frame[p].words[j])
        /\ frame[p].existing_word_records # <<>>
        /\ Len(frame[p].word_records) = 1

\* the ids of the stored documents
StoredIds == {documents[i].id : i \in 1..Len(documents)}

\* the step is task p entering associate_words_with_document
Enters(p) ==
    /\ calls' = calls + 1
    /\ frame'[p].op = Index
    /\ frame'[p] # frame[p] \/ pc'[p] # pc[p]

\* C11. Lookups of unknown identifiers never raise: get_document_by_id of an
\* id no document has returns None; get_by_document_ids, as
\* associate_words_with_document calls it, loads exactly the requested
\* documents that exist, each once, and raises nothing; and a call given only
\* unknown ids returns at once with no association and no Word made.
C11_UnknownIdsNeverRaise ==
    /\ [](\A id \in 1..(MaxDocs + 1) :
            IF id \in StoredIds
            THEN Len(get_document_by_id(documents, id)) = 1
            ELSE get_document_by_id(documents, id) = <<>>)
    /\ [][\A p \in Tasks :
            Enters(p) =>
                LET ids == Range(frame'[p].document_ids)
                    loaded == frame'[p].documents
                    wanted == {d \in Range(documents) : d.id \in ids}
                IN  /\ Range(loaded) = wanted
                    /\ Len(loaded) = Cardinality(wanted)
                    /\ frame'[p].raised = "none"
                    /\ (ids \cap StoredIds = {}) =>
                           /\ pc'[p] = "returned"
                           /\ frame'[p].associations = <<>>
                           /\ words' = words
                           /\ word_document_associations' = word_document_associations]_vars

\* a call given nothing but ids no document has has returned
C11_Witness ==
    \E p \in Tasks :
        /\ Returned(p, Index)
        /\ frame[p].document_ids # <<>>
        /\ Range(frame[p].document_ids) \cap StoredIds = {}
        /\ frame[p].associations = <<>>

\* C12. Document creation: create_documents stores exactly one Document per
\* input and returns them in input order, each with an id no stored document
\* and no other new one has and with the stored flag false, and leaves the
\* documents stored before as they were.
C12_DocumentCreation ==
    [][documents' # documents =>
        LET c == created'.contents
            r == created'.returned
            n == Len(documents)
        IN  /\ Len(documents') = n + Len(c)
            /\ Len(r) = Len(c)
            /\ \A i \in 1..n : documents'[i] = documents[i]
            /\ \A i \in 1..Len(c) :
                   /\ r[i] = documents'[n + i]
                   /\ r[i].processed_content = c[i]
                   /\ r[i].is_associated = FALSE
                   /\ r[i].id \notin StoredIds
                   /\ \A j \in 1..Len(c) : j # i => r[j].id # r[i].id]_vars

\* two documents of different contents were created by one call
C12_Witness ==
    /\ Len(created.contents) = 2
    /\ created.contents[1] # created.contents[2]
    /\ Len(created.returned) = 2
    /\ \A i \in 1..2 : created.returned[i] \in Range(documents)

\* C13. Referential integrity under interleaving: in every state, between
\* the steps of running calls too, every association stored or flushed
\* references a stored Word and a stored Document, and the Words returned
\* for a document are stored before the document's associations are made.
C13_ReferentialIntegrity ==
    /\ \A a \in Range(word_document_associations)
                    \cup UNION {Range(frame[p].session) : p \in Tasks} :
           /\ WordById(a.word_id) # {}
           /\ a.document_id \in StoredIds
    /\ \A p \in Tasks :
           (frame[p].op = Index /\ pc[p] \in {"associations_flush", "associations_commit"}) =>
               \A i \in 1..Len(frame[p].word_records) :
                   frame[p].word_records[i] \in Range(words)

\* one task holds flushed, uncommitted associations while the other has
\* stored associations and is at work on its next document
C13_Witness ==
    \E p, q \in Tasks :
        /\ p # q
        /\ pc[p] = "associations_commit"
        /\ frame[p].session # <<>>
        /\ pc[q] \in {"document", "words_flush"}
        /\ frame[q].associations # <<>>

\* C14. Per-document all-or-nothing association write: the associations a
\* pass makes for one document are invisible while only flushed, become
\* visible in one step, all of them and nothing else, and when the pass
\* raises while working on a document none of its associations for that
\* document exists.
C14_AllOrNothing ==
    /\ [](\A p \in Tasks :
            /\ pc[p] = "associations_commit" =>
                   \A a \in Range(frame[p].session) : a \notin Range(word_document_associations)
            /\ (pc[p] = "raised" /\ frame[p].op = Index) =>
                   \A a \in Range(frame[p].associations) :
                       a.document_id # frame[p].documents[frame[p].k].id)
    /\ [][word_document_associations' # word_document_associations =>
            \E p \in Tasks :
                /\ pc[p] = "associations_commit"
                /\ pc'[p] # "associations_commit"
                /\ word_document_associations'
                       = word_document_associations \o frame[p].session
                /\ Len(frame[p].session) = Len(frame[p].word_records)
                /\ \A a \in Range(frame[p].session) :
                       a.document_id = frame[p].documents[frame[p].k].id]_vars

\* a pass raised on a document that has the associations of another task's
\* pass and none of its own
C14_Witness ==
    \E p, q \in Tasks :
        /\ p # q
        /\ pc[p] = "raised"
        /\ frame[p].op = Index
        /\ Returned(q, Index)
        /\ \E a \in Range(frame[q].associations) \cap Range(word_document_associations) :
               a.document_id = frame[p].documents[frame[p].k].id

\* table t is table s with rows appended
Extends(t, s) == Len(t) >= Len(s) /\ \A i \in 1..Len(s) : t[i] = s[i]

\* C15. Records are never deleted or mutated: over the runs of main.py, the
\* migrate step included, every step leaves every stored Word with its id
\* and text, every stored association with its word and document, and every
\* stored document with its id and content; the tables only grow.
C15_RecordsOnlyGrow ==
    [][/\ Extends(words', words)
       /\ Extends(word_document_associations', word_document_associations)
       /\ Len(documents') >= Len(documents)
       /\ \A i \in 1..Len(documents) :
              /\ documents'[i].id = documents[i].id
              /\ documents'[i].processed_content = documents[i].processed_content]_vars

\* main.py was started again, and migrate ran, on a store that holds Words,
\* documents and associations
C15_Witness ==
    /\ driver.step = "register"
    /\ words # <<>>
    /\ documents # <<>>
    /\ word_document_associations # <<>>

\* C17. Driver selects only pending work: over the runs of register.main no
\* document id is submitted to associate_words_with_document twice.
C17_SubmittedAtMostOnce ==
    \A i, j \in 1..Len(driver.submitted) :
        i # j => driver.submitted[i] # driver.submitted[j]

\* the stored indexed flags, by document
StoredFlags(table) == [i \in 1..Len(table) |-> table[i].is_associated]

\* C16. Ownership frame: a step changes the stored associations only when
\* it is associate_words_with_document committing a document's session, and
\* then it appends them; steps of create_documents and create_or_find_words
\* change neither the associations nor a stored flag; and no step turns a
\* stored flag from true to false.
C16_OwnershipFrame ==
    [][/\ word_document_associations' # word_document_associations =>
              \E p \in Tasks :
                  /\ frame[p].op = Index
                  /\ pc[p] = "associations_commit"
                  /\ Extends(word_document_associations', word_document_associations)
       /\ \A i \in 1..Len(documents) :
              documents[i].is_associated => documents'[i].is_associated
       /\ \A i \in 1..Len(documents) :
              documents'[i].is_associated # documents[i].is_associated =>
                  \E p \in Tasks : frame[p].op = Index /\ pc'[p] # pc[p]
       /\ (\/ documents' # documents
           \/ \E p \in Tasks : pc'[p] # pc[p] /\ frame'[p].op = "create_or_find_words") =>
              /\ word_document_associations' = word_document_associations
              /\ StoredFlags(documents') = StoredFlags(documents) \o
                     [i \in 1..(Len(documents') - Len(documents)) |-> FALSE]]_vars

\* create_or_find_words stored new Words while the store held associations
C16_Witness ==
    /\ \E p \in Tasks :
           /\ Returned(p, "create_or_find_words")
           /\ frame[p].new_words # <<>>
           /\ \A i \in 1..Len(frame[p].new_words) : frame[p].new_words[i] \in Range(words)
    /\ word_document_associations # <<>>

\* C18. Failed term resolution leaves the store unchanged: the step in which
\* a create_or_find_words call raises changes no table and leaves the write
\* lock where it was, and the session keeps none of the Words it had added,
\* those whose text did not conflict included.
C18_FailedResolutionStoresNothing ==
    [][\A p \in Tasks :
          (pc'[p] = "raised" /\ pc[p] # "raised") =>
              /\ words' = words
              /\ documents' = documents
              /\ word_document_associations' = word_document_associations
              /\ frame'[p].new_words = <<>>
              /\ writer' = writer
              /\ writer # p]_vars

\* a call that had added two Words raised on one of them, and the text of
\* the other is not stored
C18_Witness ==
    \E p \in Tasks :
        /\ pc[p] = "raised"
        /\ frame[p].raised = "IntegrityError"
        /\ \E t \in words_lower_set(frame[p].words) :
               \A i \in 1..Len(words) : words[i].text # t

\* C19. Repeated ids in one request: a call of
\* associate_words_with_document loads a document once however often its id
\* is listed, and when it has returned the call has made for the document
\* what one listing makes: one association per distinct term.
C19_RepeatedIds ==
    \A p \in Tasks :
        frame[p].op = Index =>
            /\ \A i, j \in 1..Len(frame[p].documents) :
                   i # j => frame[p].documents[i].id # frame[p].documents[j].id
            /\ Returned(p, Index) =>
                   \A k \in 1..Len(frame[p].documents) :
                       LET d == frame[p].documents[k]
                       IN  Count(frame[p].associations, LAMBDA a : a.document_id = d.id)
                               = Cardinality(words_lower_set(DocumentWords(d.processed_content)))

\* a call that listed the id of a stored document twice has returned with
\* associations
C19_Witness ==
    \E p \in Tasks :
        /\ Returned(p, Index)
        /\ \E i, j \in 1..Len(frame[p].document_ids) :
               /\ i # j
               /\ frame[p].document_ids[i] = frame[p].document_ids[j]
               /\ frame[p].document_ids[i] \in StoredIds
        /\ frame[p].associations # <<>>

====
